---------------------------- MODULE Spec2Model ----------------------------
(***************************************************************************)
(* Model of gpt_researcher/FAR10_promptfamily.py: the base prompt family,  *)
(* the FAR Part 10 prompt family, the report-type selector and the prompt- *)
(* family factory, called by several callers that interleave.              *)
(*                                                                         *)
(* A Python str is a sequence of tokens.  A token is either one fragment   *)
(* of a template literal of the source (kept whole, non-ASCII characters   *)
(* written in ASCII: "->" for the arrow, "*" for the bullet, ">=" for the   *)
(* sign, plain quotes, hyphens and spaces) or one unit of caller-supplied   *)
(* text.                                                                   *)
(* Caller-supplied text is drawn from tokens that are not template         *)
(* fragments, so a fragment found in an output was put there by the code.  *)
(***************************************************************************)
EXTENDS Integers, Sequences, FiniteSets, TLC

VARIABLES
    prompt_family_mapping,  \* module global, line 168
    report_type_mapping,    \* module global, line 156
    PRIMARY_SOURCES,        \* FARPart10PromptFamily._PRIMARY_SOURCES, line 79
    today,                  \* the wall clock read by date.today()
    pc,                     \* per caller: the line it is about to run
    frame,                  \* per caller: operation, arguments and locals
    ret,                    \* per caller: the value its last call returned
    warned,                 \* per caller: warnings emitted during its call
    inst                    \* per caller: the family instance it holds

vars == <<prompt_family_mapping, report_type_mapping, PRIMARY_SOURCES, today,
          pc, frame, ret, warned, inst>>

shared == <<prompt_family_mapping, report_type_mapping, PRIMARY_SOURCES>>

---------------------------------------------------------------------------
(* Bounds of the model *)

NumCallers == 2
MaxDocs == 3
MaxIter == 11
MinIter == 7
MaxTopN == 4
MinTopN == 2
LastDay == 2

---------------------------------------------------------------------------
(* Python values *)

None == [t |-> "None", v |-> <<>>]
Omitted == [t |-> "omitted", v |-> <<>>]
StrV(s) == [t |-> "str", v |-> s]
IntV(n) == [t |-> "int", v |-> n]

\* bool(x) as used by "if x" / "x if cond else y"
Truthy(x) ==
    CASE x.t = "str" -> x.v # <<>>
      [] x.t = "int" -> x.v # 0
      [] OTHER -> FALSE

\* Binding of a parameter that has a default value
Default(arg, dflt) == IF arg.t = "omitted" THEN dflt ELSE arg

Digit(d) ==
    CASE d = 0 -> "0" [] d = 1 -> "1" [] d = 2 -> "2" [] d = 3 -> "3"
      [] d = 4 -> "4" [] d = 5 -> "5" [] d = 6 -> "6" [] d = 7 -> "7"
      [] d = 8 -> "8" [] d = 9 -> "9"

RECURSIVE NatToStr(_)
NatToStr(n) ==
    IF n < 10 THEN <<Digit(n)>> ELSE NatToStr(n \div 10) \o <<Digit(n % 10)>>

\* str(n) of an int
IntToStr(n) == IF n < 0 THEN <<"-">> \o NatToStr(-n) ELSE NatToStr(n)

\* {x} inside an f-string
Format(x) ==
    CASE x.t = "str" -> x.v
      [] x.t = "int" -> IntToStr(x.v)
      [] OTHER -> <<"None">>

\* sep.join(parts)
RECURSIVE Join(_, _)
Join(parts, sep) ==
    IF parts = <<>> THEN <<>>
    ELSE IF Len(parts) = 1 THEN parts[1]
    ELSE parts[1] \o sep \o Join(Tail(parts), sep)

\* range(n), as the sequence 0 .. n-1; empty when n <= 0
Range(n) == IF n <= 0 THEN <<>> ELSE [i \in 1..n |-> i - 1]

\* lst[:k]
SliceTo(lst, k) ==
    IF k >= 0
    THEN SubSeq(lst, 1, IF k < Len(lst) THEN k ELSE Len(lst))
    ELSE SubSeq(lst, 1, IF Len(lst) + k > 0 THEN Len(lst) + k ELSE 0)

UpperTok(c) ==
    CASE c = "a" -> "A" [] c = "p" -> "P" [] c = "m" -> "M" [] c = "l" -> "L"
      [] OTHER -> c

\* s.upper()
Upper(s) == [i \in 1..Len(s) |-> UpperTok(s[i])]

\* d.get(key): None when the key is absent
DictGet(d, key) == IF key \in DOMAIN d THEN StrV(d[key]) ELSE None

\* d.get(key, dflt) for a dict of plain names
DictGetOr(d, key, dflt) == IF key \in DOMAIN d THEN d[key] ELSE dflt

\* str(today) of a datetime.date: YYYY-MM-DD, zero padded
Pad2(n) == IF n < 10 THEN <<"0">> \o NatToStr(n) ELSE NatToStr(n)
DateStr(d) == NatToStr(d.year) \o <<"-">> \o Pad2(d.month) \o <<"-">> \o Pad2(d.day)

---------------------------------------------------------------------------
(* class PromptFamily *)

DocBlock(d) ==
    <<"Source: ">> \o Format(DictGet(d.metadata, "source"))
        \o <<"\nTitle: ">> \o Format(DictGet(d.metadata, "title"))
        \o <<"\nContent: ">> \o d.page_content

\* variant: the bound compared with <=
DocKept_inclusive(i, top_n) == top_n.t = "None" \/ i <= top_n.v

\* the generator's condition: "top_n is None or i < top_n"
DocKept(i, top_n) == top_n.t = "None" \/ i < top_n.v

RECURSIVE DocBlocksFrom(_, _, _)
DocBlocksFrom(docs, i, top_n) ==
    IF i >= Len(docs) THEN <<>>
    ELSE (IF DocKept(i, top_n) THEN <<DocBlock(docs[i + 1])>> ELSE <<>>)
             \o DocBlocksFrom(docs, i + 1, top_n)

pretty_print_docs(docs, top_n_arg) ==
    LET top_n == Default(top_n_arg, None)
    IN  Join(DocBlocksFrom(docs, 0, top_n), <<"\n">>)

\* task = f"{parent_query} - {question}" if parent_query else question
Task(question, parent_query) ==
    IF Truthy(parent_query)
    THEN Format(parent_query) \o <<" - ">> \o question
    ELSE question

\* variant: the entries numbered from 0
PF_dynamic_example_from_zero(max_iterations) ==
    LET r == Range(max_iterations)
    IN  Join([k \in 1..Len(r) |-> <<"\"query ">> \o IntToStr(r[k]) \o <<"\"">>],
             <<", ">>)

PF_dynamic_example(max_iterations) ==
    LET r == Range(max_iterations)
    IN  Join([k \in 1..Len(r) |-> <<"\"query ">> \o IntToStr(r[k] + 1) \o <<"\"">>],
             <<", ">>)

PF_generate_search_queries_prompt(question, parent_query, report_type, max_iterations_arg, context) ==
    LET max_iterations == Default(max_iterations_arg, IntV(3)).v
        task == Task(question, parent_query)
        dynamic_example == PF_dynamic_example(max_iterations)
    IN  <<"Write ">> \o IntToStr(max_iterations)
            \o <<" web search queries to learn about: \"">> \o task \o <<"\".\n">>
            \o <<"Return a Python list -> [">> \o dynamic_example \o <<"] only.">>

\* variant: "if tone is not None" in place of "if tone"
PF_tone_clause_not_none(tone) ==
    IF tone.t # "None" THEN <<"Write in a ">> \o Format(tone) \o <<" tone.">> ELSE <<>>

PF_tone_clause(tone) ==
    IF Truthy(tone) THEN <<"Write in a ">> \o Format(tone) \o <<" tone.">> ELSE <<>>

PF_generate_report_prompt(question, context, report_source, report_format_arg, total_words_arg, tone_arg, language_arg) ==
    LET report_format == Default(report_format_arg, StrV(<<"a", "p", "a">>)).v
        total_words == Default(total_words_arg, IntV(1000)).v
        tone == Default(tone_arg, None)
        language == Default(language_arg, StrV(<<"english">>)).v
        tone_clause == PF_tone_clause(tone)
    IN  <<"Information gathered: \"">> \o context \o <<"\"\n---\n">>
            \o <<"Using that information, draft a ">> \o IntToStr(total_words)
            \o <<"+ word report answering: \"">> \o question \o <<"\".\n">>
            \o <<"* Use markdown + ">> \o Upper(report_format) \o <<" citations.\n">>
            \o <<"* ">> \o tone_clause \o <<"\n">>
            \o <<"* Language: ">> \o language \o <<".\n">>

---------------------------------------------------------------------------
(* class FARPart10PromptFamily(PromptFamily) *)

\* variant: "if parent_query is not None" in place of "if parent_query"
FAR_task_not_none(question, parent_query) ==
    IF parent_query.t # "None"
    THEN Format(parent_query) \o <<" - ">> \o question
    ELSE question

\* line 94, the same rule as line 50
FAR_task(question, parent_query) ==
    IF Truthy(parent_query)
    THEN Format(parent_query) \o <<" - ">> \o question
    ELSE question

PrimarySourcesLiteral ==
    << <<"GSA eLibrary">>,
       <<"GSA Advantage">>,
       <<"USAspending.gov">>,
       <<"SBA Dynamic Small Business Search (DSBS)">>,
       <<"Federal Procurement Data System (FPDS)">> >>

\* gov_hint = ", ".join(_PRIMARY_SOURCES)
FAR_gov_hint(sources) == Join(sources, <<", ">>)

\* variant: the slice left out
FAR_dynamic_example_unsliced(sources, task, max_iterations) ==
    Join([k \in 1..Len(sources) |-> <<"\"">> \o sources[k] \o <<" ">> \o task \o <<"\"">>],
         <<", ">>)

\* dynamic_example = ", ".join([f'"{s} {task}"' for s in _PRIMARY_SOURCES[:max_iterations]])
FAR_dynamic_example(sources, task, max_iterations) ==
    LET sl == SliceTo(sources, max_iterations)
    IN  Join([k \in 1..Len(sl) |-> <<"\"">> \o sl[k] \o <<" ">> \o task \o <<"\"">>],
             <<", ">>)

FAR_search_queries_text(max_iterations, gov_hint, task, dynamic_example) ==
    <<"You are performing FAR Part 10 market research.  Generate up to ">>
        \o IntToStr(max_iterations)
        \o <<" highly-targeted \"site:\" or keyword queries that will surface contractor information from these primary systems first: ">>
        \o gov_hint \o <<".  \n">>
        \o <<"Task: \"">> \o task \o <<"\". Return ONLY a Python list, e.g. [">>
        \o dynamic_example \o <<"].">>

FAR_tone_clause(tone) ==
    IF Truthy(tone) THEN <<"Write in a ">> \o Format(tone) \o <<" tone.">> ELSE <<>>

\* variant: the comparison made on report_source.lower()
FAR_source_clause_any_case(report_source) ==
    IF report_source \in {<<"web">>, <<"Web">>, <<"WEB">>}
    THEN <<"List contract numbers & links from each cited system at the end.">>
    ELSE <<>>

FAR_source_clause(report_source) ==
    IF report_source = <<"web">>
    THEN <<"List contract numbers & links from each cited system at the end.">>
    ELSE <<>>

RequiredElements ==
    << "1. Potential sources and their socio-economic status (e.g., Small, 8(a), HUBZone).\n",
       "2. Contract vehicles (GSA schedules, BPAs, IDIQs) where the requirement could be placed.\n",
       "3. Recent relevant contract awards with pricing data.\n",
       "4. Assessment of competition & capability.\n",
       "5. Recommendation (adequate competition? set-aside feasible?).\n" >>

\* date_today is what date.today() returned at line 130
FAR_generate_report_prompt(question, context, report_source, report_format_arg, total_words_arg, tone_arg, language_arg, date_today) ==
    LET report_format == Default(report_format_arg, StrV(<<"a", "p", "a">>)).v
        total_words == Default(total_words_arg, IntV(800)).v
        tone == Default(tone_arg, StrV(<<"objective">>))
        language == Default(language_arg, StrV(<<"english">>)).v
        tone_clause == FAR_tone_clause(tone)
        source_clause == FAR_source_clause(report_source)
    IN  <<"Information collected: \n\"">> \o context \o <<"\"\n---\n">>
            \o <<"Draft a concise FAR Part 10 market research report (>=">>
            \o IntToStr(total_words) \o <<" words) addressing: \"">> \o question \o <<"\".\n">>
            \o <<"Required elements:\n">>
            \o RequiredElements
            \o <<"* Use markdown + ">> \o Upper(report_format) \o <<" citations.\n">>
            \o <<"* ">> \o tone_clause \o <<"  * ">> \o source_clause \o <<"\n">>
            \o <<"* Date: ">> \o DateStr(date_today) \o <<".  Language: ">> \o language \o <<".">>

---------------------------------------------------------------------------
(* Classes, instances and attribute lookup *)

NoValue == [kind |-> "none"]
TextValue(s) == [kind |-> "str", text |-> s]
Instance(cls, cfg) == [kind |-> "instance", cls |-> cls, cfg |-> cfg]
Function(owner, name) == [kind |-> "function", owner |-> owner, name |-> name]
Raised(exc) == [kind |-> "raise", exc |-> exc]

\* the names each class body defines
ClassDict(cls) ==
    CASE cls = "PromptFamily" ->
            {"__init__", "pretty_print_docs", "generate_search_queries_prompt",
             "generate_report_prompt"}
      [] cls = "FARPart10PromptFamily" ->
            {"generate_search_queries_prompt", "generate_mcp_tool_selection_prompt",
             "generate_report_prompt"}

\* the method resolution order of a class
Mro(cls) ==
    IF cls = "FARPart10PromptFamily"
    THEN <<"FARPart10PromptFamily", "PromptFamily">>
    ELSE <<"PromptFamily">>

\* getattr(obj, name) for a name the classes may define; the methods are static,
\* so the attribute is the plain function of the first class that defines it
GetAttr(obj, name) ==
    LET mro == Mro(obj.cls)
        hits == {k \in 1..Len(mro) : name \in ClassDict(mro[k])}
    IN  IF hits = {} THEN Raised("AttributeError")
        ELSE Function(mro[CHOOSE k \in hits : \A j \in hits : k <= j], name)

\* cls(config): PromptFamily.__init__ stores the config
Construct(cls, config) == Instance(cls, config)

ReportTypeLiteral == ("ResearchReport" :> "generate_report_prompt")

\* variant: the second entry registered with the base class
FamilyLiteral_both_base ==
    ("Default" :> "PromptFamily") @@ ("FARPart10" :> "PromptFamily")

FamilyLiteral ==
    ("Default" :> "PromptFamily") @@ ("FARPart10" :> "FARPart10PromptFamily")

UnknownFamilyWarning(name) ==
    <<"Unknown prompt family '", name, "', using Default.">>

---------------------------------------------------------------------------
(* Callers *)

Callers == 1..NumCallers

NoFrame == [op |-> "none"]

\* a caller is between calls
Ready(c) == pc[c] = "idle"

HoldsInstance(c) == inst[c].kind = "instance"

FirstDay == [year |-> 2025, month |-> 1, day |-> 1]

Init ==
    /\ prompt_family_mapping = FamilyLiteral
    /\ report_type_mapping = ReportTypeLiteral
    /\ PRIMARY_SOURCES = PrimarySourcesLiteral
    /\ today = FirstDay
    /\ pc = [c \in Callers |-> "idle"]
    /\ frame = [c \in Callers |-> NoFrame]
    /\ ret = [c \in Callers |-> NoValue]
    /\ warned = [c \in Callers |-> <<>>]
    /\ inst = [c \in Callers |-> NoValue]

\* the clock moves on between any two steps
Tick ==
    /\ today.day < LastDay
    /\ today' = [today EXCEPT !.day = @ + 1]
    /\ UNCHANGED <<shared, pc, frame, ret, warned, inst>>

\* entering a call whose body runs in several steps
Enter(c, f, label) ==
    /\ Ready(c)
    /\ frame' = [frame EXCEPT ![c] = f]
    /\ pc' = [pc EXCEPT ![c] = label]
    /\ UNCHANGED <<shared, today, ret, warned, inst>>

\* a call that runs to its return in one step
Run(c, f, value) ==
    /\ Ready(c)
    /\ frame' = [frame EXCEPT ![c] = f]
    /\ pc' = [pc EXCEPT ![c] = "done"]
    /\ ret' = [ret EXCEPT ![c] = value]
    /\ UNCHANGED <<shared, today, warned, inst>>

\* the caller has used the result of its call and is free to call again
Continue(c) ==
    /\ pc[c] = "done"
    /\ pc' = [pc EXCEPT ![c] = "idle"]
    /\ frame' = [frame EXCEPT ![c] = NoFrame]
    /\ ret' = [ret EXCEPT ![c] = NoValue]
    /\ warned' = [warned EXCEPT ![c] = <<>>]
    /\ UNCHANGED <<shared, today, inst>>

---------------------------------------------------------------------------
(* get_prompt_family(name, config=None) *)

get_prompt_family_call(c, names, configs) ==
    \E name \in names, config \in configs :
        Enter(c, [op |-> "get_prompt_family", name |-> name, config_arg |-> config,
                  config |-> Default(config, None), cls |-> ""], "L176")

\* variant: an unknown name is registered on first use
get_prompt_family_176_caching(c) ==
    /\ pc[c] = "L176"
    /\ frame' = [frame EXCEPT ![c].cls =
                    DictGetOr(prompt_family_mapping, frame[c].name, "PromptFamily")]
    /\ prompt_family_mapping' =
            IF frame[c].name \in DOMAIN prompt_family_mapping
            THEN prompt_family_mapping
            ELSE prompt_family_mapping @@ (frame[c].name :> "PromptFamily")
    /\ pc' = [pc EXCEPT ![c] = "L177"]
    /\ UNCHANGED <<report_type_mapping, PRIMARY_SOURCES, today, ret, warned, inst>>

\* cls = prompt_family_mapping.get(name, PromptFamily)
get_prompt_family_176(c) ==
    /\ pc[c] = "L176"
    /\ frame' = [frame EXCEPT ![c].cls =
                    DictGetOr(prompt_family_mapping, frame[c].name, "PromptFamily")]
    /\ pc' = [pc EXCEPT ![c] = "L177"]
    /\ UNCHANGED <<shared, today, ret, warned, inst>>

\* variant: the warning emitted for every name
get_prompt_family_177_always(c) ==
    /\ pc[c] = "L177"
    /\ warned' = [warned EXCEPT ![c] = Append(@, UnknownFamilyWarning(frame[c].name))]
    /\ pc' = [pc EXCEPT ![c] = "L179"]
    /\ UNCHANGED <<shared, today, frame, ret, inst>>

\* if name not in prompt_family_mapping: warnings.warn(...)
get_prompt_family_177(c) ==
    /\ pc[c] = "L177"
    /\ warned' = [warned EXCEPT ![c] =
                    IF frame[c].name \notin DOMAIN prompt_family_mapping
                    THEN Append(@, UnknownFamilyWarning(frame[c].name))
                    ELSE @]
    /\ pc' = [pc EXCEPT ![c] = "L179"]
    /\ UNCHANGED <<shared, today, frame, ret, inst>>

\* return cls(config); the caller keeps the instance
get_prompt_family_179(c) ==
    /\ pc[c] = "L179"
    /\ ret' = [ret EXCEPT ![c] = Construct(frame[c].cls, frame[c].config)]
    /\ inst' = [inst EXCEPT ![c] = Construct(frame[c].cls, frame[c].config)]
    /\ pc' = [pc EXCEPT ![c] = "done"]
    /\ UNCHANGED <<shared, today, frame, warned>>

---------------------------------------------------------------------------
(* get_prompt_by_report_type(report_type, prompt_family) *)

get_prompt_by_report_type_call(c, report_types) ==
    /\ HoldsInstance(c)
    /\ \E report_type \in report_types :
        Enter(c, [op |-> "get_prompt_by_report_type", report_type |-> report_type,
                  prompt_family |-> inst[c], method_name |-> ""], "L162")

\* variant: another operation name as the default
get_prompt_by_report_type_162_other_default(c) ==
    /\ pc[c] = "L162"
    /\ frame' = [frame EXCEPT ![c].method_name =
                    DictGetOr(report_type_mapping, frame[c].report_type,
                              "generate_custom_report_prompt")]
    /\ pc' = [pc EXCEPT ![c] = "L163"]
    /\ UNCHANGED <<shared, today, ret, warned, inst>>

\* method_name = report_type_mapping.get(report_type, "generate_report_prompt")
get_prompt_by_report_type_162(c) ==
    /\ pc[c] = "L162"
    /\ frame' = [frame EXCEPT ![c].method_name =
                    DictGetOr(report_type_mapping, frame[c].report_type,
                              "generate_report_prompt")]
    /\ pc' = [pc EXCEPT ![c] = "L163"]
    /\ UNCHANGED <<shared, today, ret, warned, inst>>

\* return getattr(prompt_family, method_name)
get_prompt_by_report_type_163(c) ==
    /\ pc[c] = "L163"
    /\ ret' = [ret EXCEPT ![c] = GetAttr(frame[c].prompt_family, frame[c].method_name)]
    /\ pc' = [pc EXCEPT ![c] = "done"]
    /\ UNCHANGED <<shared, today, frame, warned, inst>>

---------------------------------------------------------------------------
(* The families' operations, called on the instance the caller holds *)

\* the class whose function inst[c].<name> is
Owner(c, name) == GetAttr(inst[c], name).owner

pretty_print_docs_call(c, doclists, top_ns) ==
    /\ HoldsInstance(c)
    /\ \E docs \in doclists, top_n \in top_ns :
        Run(c, [op |-> "pretty_print_docs", docs |-> docs, top_n |-> top_n],
            TextValue(pretty_print_docs(docs, top_n)))

PF_generate_search_queries_prompt_call(c, questions, parent_queries, report_types, iterations, contexts) ==
    /\ HoldsInstance(c)
    /\ Owner(c, "generate_search_queries_prompt") = "PromptFamily"
    /\ \E q \in questions, pq \in parent_queries, rt \in report_types,
          mi \in iterations, cx \in contexts :
        Run(c, [op |-> "generate_search_queries_prompt", owner |-> "PromptFamily",
                question |-> q, parent_query |-> pq, report_type |-> rt,
                max_iterations |-> mi, context |-> cx],
            TextValue(PF_generate_search_queries_prompt(q, pq, rt, mi, cx)))

FAR_generate_search_queries_prompt_call(c, questions, parent_queries, report_types, iterations, contexts) ==
    /\ HoldsInstance(c)
    /\ Owner(c, "generate_search_queries_prompt") = "FARPart10PromptFamily"
    /\ \E q \in questions, pq \in parent_queries, rt \in report_types,
          mi \in iterations, cx \in contexts :
        Enter(c, [op |-> "generate_search_queries_prompt",
                  owner |-> "FARPart10PromptFamily",
                  question |-> q, parent_query |-> pq, report_type |-> rt,
                  max_iterations |-> mi, context |-> cx,
                  task |-> <<>>, gov_hint |-> <<>>, dynamic_example |-> <<>>], "L94")

\* lines 94-96: task, then gov_hint from the class attribute
FAR_generate_search_queries_prompt_94(c) ==
    /\ pc[c] = "L94"
    /\ frame' = [frame EXCEPT
                    ![c].task = FAR_task(frame[c].question, frame[c].parent_query),
                    ![c].gov_hint = FAR_gov_hint(PRIMARY_SOURCES)]
    /\ pc' = [pc EXCEPT ![c] = "L97"]
    /\ UNCHANGED <<shared, today, ret, warned, inst>>

\* line 97: dynamic_example from a second read of the class attribute
FAR_generate_search_queries_prompt_97(c) ==
    /\ pc[c] = "L97"
    /\ frame' = [frame EXCEPT ![c].dynamic_example =
                    FAR_dynamic_example(PRIMARY_SOURCES, frame[c].task,
                        Default(frame[c].max_iterations, IntV(3)).v)]
    /\ pc' = [pc EXCEPT ![c] = "L99"]
    /\ UNCHANGED <<shared, today, ret, warned, inst>>

\* lines 99-102: the returned text
FAR_generate_search_queries_prompt_99(c) ==
    /\ pc[c] = "L99"
    /\ ret' = [ret EXCEPT ![c] =
                TextValue(FAR_search_queries_text(
                    Default(frame[c].max_iterations, IntV(3)).v,
                    frame[c].gov_hint, frame[c].task, frame[c].dynamic_example))]
    /\ pc' = [pc EXCEPT ![c] = "done"]
    /\ UNCHANGED <<shared, today, frame, warned, inst>>

PF_generate_report_prompt_call(c, questions, contexts, sources, formats, words, tones, languages) ==
    /\ HoldsInstance(c)
    /\ Owner(c, "generate_report_prompt") = "PromptFamily"
    /\ \E q \in questions, cx \in contexts, rs \in sources, rf \in formats,
          tw \in words, tn \in tones, lg \in languages :
        Run(c, [op |-> "generate_report_prompt", owner |-> "PromptFamily",
                question |-> q, context |-> cx, report_source |-> rs,
                report_format |-> rf, total_words |-> tw, tone |-> tn,
                language |-> lg, today |-> today],
            TextValue(PF_generate_report_prompt(q, cx, rs, rf, tw, tn, lg)))

FAR_generate_report_prompt_call(c, questions, contexts, sources, formats, words, tones, languages) ==
    /\ HoldsInstance(c)
    /\ Owner(c, "generate_report_prompt") = "FARPart10PromptFamily"
    /\ \E q \in questions, cx \in contexts, rs \in sources, rf \in formats,
          tw \in words, tn \in tones, lg \in languages :
        Run(c, [op |-> "generate_report_prompt", owner |-> "FARPart10PromptFamily",
                question |-> q, context |-> cx, report_source |-> rs,
                report_format |-> rf, total_words |-> tw, tone |-> tn,
                language |-> lg, today |-> today],
            TextValue(FAR_generate_report_prompt(q, cx, rs, rf, tw, tn, lg, today)))

---------------------------------------------------------------------------
(* Arguments the callers pass *)

FamilyNames == {"Default", "FARPart10", "NoSuchFamily", "default", ""}
ConfigValue == [t |-> "Config", v |-> <<"cfg">>]
Configs == {Omitted, None, ConfigValue}
ReportTypes == {"ResearchReport", "anything-else", "researchreport", ""}

Questions == {<<"X">>, <<"X", " - ", "Y">>}
ParentQueries == {None, StrV(<<>>), StrV(<<"P">>), StrV(<<"P", " - ", "R">>)}
Iterations == {Omitted} \cup {IntV(n) : n \in (0 - MinIter)..MaxIter}
QueryContexts == {Omitted, None, [t |-> "list", v |-> <<"hit">>]}

ReportContexts == {<<>>, <<"facts">>}
ReportSources == {<<"web">>, <<"Web">>, <<"WEB">>, <<>>, <<"local">>, <<"web", " ">>}
ReportFormats == {Omitted, StrV(<<"m", "l", "a">>)}
TotalWords == {Omitted, IntV(1200)}
Tones == {Omitted, None, StrV(<<>>), StrV(<<"formal">>)}
Languages == {Omitted, StrV(<<"french">>)}

NoMetadata == [k \in {} |-> <<>>]
DocPool ==
    { [metadata |-> ("source" :> <<"s1">>) @@ ("title" :> <<"t1">>),
       page_content |-> <<"c1">>],
      [metadata |-> ("source" :> <<"s2">>), page_content |-> <<"c2">>],
      [metadata |-> NoMetadata, page_content |-> <<>>] }
DocLists == UNION {[1..n -> DocPool] : n \in 0..MaxDocs}
TopNs == {Omitted, None} \cup {IntV(n) : n \in (0 - MinTopN)..MaxTopN}

\* the instances the factory can hand out
Instances ==
    {Instance(cls, cfg) : cls \in {"PromptFamily", "FARPart10PromptFamily"},
                          cfg \in {None, ConfigValue}}

---------------------------------------------------------------------------
(* Several callers, every operation, interleaved *)

Next ==
    \/ Tick
    \/ \E c \in Callers :
        \/ get_prompt_family_call(c, {"Default", "FARPart10", "NoSuchFamily"}, {Omitted})
        \/ get_prompt_family_176(c)
        \/ get_prompt_family_177(c)
        \/ get_prompt_family_179(c)
        \/ get_prompt_by_report_type_call(c, {"ResearchReport", "anything-else"})
        \/ get_prompt_by_report_type_162(c)
        \/ get_prompt_by_report_type_163(c)
        \/ pretty_print_docs_call(c, {d \in DocLists : Len(d) = 1}, {IntV(1)})
        \/ PF_generate_search_queries_prompt_call(c, {<<"X">>}, {StrV(<<"P">>)}, {"ResearchReport"}, {IntV(2)}, {Omitted})
        \/ FAR_generate_search_queries_prompt_call(c, {<<"X">>}, {StrV(<<"P">>)}, {"ResearchReport"}, {IntV(2)}, {Omitted})
        \/ FAR_generate_search_queries_prompt_94(c)
        \/ FAR_generate_search_queries_prompt_97(c)
        \/ FAR_generate_search_queries_prompt_99(c)
        \/ PF_generate_report_prompt_call(c, {<<"X">>}, {<<"facts">>}, {<<"web">>}, {Omitted}, {Omitted}, {Omitted}, {Omitted})
        \/ FAR_generate_report_prompt_call(c, {<<"X">>}, {<<"facts">>}, {<<"web">>}, {Omitted}, {Omitted}, {Omitted}, {Omitted})
        \/ Continue(c)

Spec == Init /\ [][Next]_vars

---------------------------------------------------------------------------
(* Two callers, the factory and the selector over all their arguments *)

FactoryCallers == {1, 2}

NextFactory ==
    \E c \in FactoryCallers :
        \/ get_prompt_family_call(c, FamilyNames, Configs)
        \/ get_prompt_family_176(c)
        \/ get_prompt_family_177(c)
        \/ get_prompt_family_179(c)
        \/ get_prompt_by_report_type_call(c, ReportTypes)
        \/ get_prompt_by_report_type_162(c)
        \/ get_prompt_by_report_type_163(c)
        \/ Continue(c)

SpecFactory == Init /\ [][NextFactory]_vars

---------------------------------------------------------------------------
(* One caller that holds an instance, one operation over all its arguments *)

InitHolding ==
    /\ prompt_family_mapping = FamilyLiteral
    /\ report_type_mapping = ReportTypeLiteral
    /\ PRIMARY_SOURCES = PrimarySourcesLiteral
    /\ today = FirstDay
    /\ pc = [c \in Callers |-> "idle"]
    /\ frame = [c \in Callers |-> NoFrame]
    /\ ret = [c \in Callers |-> NoValue]
    /\ warned = [c \in Callers |-> <<>>]
    /\ \E i \in Instances : inst = [c \in Callers |-> i]

NextDocs ==
    \/ pretty_print_docs_call(1, DocLists, TopNs)
    \/ Continue(1)

SpecDocs == InitHolding /\ [][NextDocs]_vars

NextQueries ==
    \/ PF_generate_search_queries_prompt_call(1, Questions, ParentQueries, ReportTypes, Iterations, QueryContexts)
    \/ FAR_generate_search_queries_prompt_call(1, Questions, ParentQueries, ReportTypes, Iterations, QueryContexts)
    \/ FAR_generate_search_queries_prompt_94(1)
    \/ FAR_generate_search_queries_prompt_97(1)
    \/ FAR_generate_search_queries_prompt_99(1)
    \/ Continue(1)

SpecQueries == InitHolding /\ [][NextQueries]_vars

NextReport ==
    \/ Tick
    \/ PF_generate_report_prompt_call(1, Questions, ReportContexts, ReportSources, ReportFormats, TotalWords, Tones, Languages)
    \/ FAR_generate_report_prompt_call(1, Questions, ReportContexts, ReportSources, ReportFormats, TotalWords, Tones, Languages)
    \/ Continue(1)

SpecReport == InitHolding /\ [][NextReport]_vars

---------------------------------------------------------------------------
(* Reading an output text back *)

Contains(text, tok) == \E i \in 1..Len(text) : text[i] = tok

\* the position of the first tok at or after position from; 0 when there is none
FirstAt(text, tok, from) ==
    LET hits == {i \in from..Len(text) : text[i] = tok}
    IN  IF hits = {} THEN 0 ELSE CHOOSE i \in hits : \A j \in hits : i <= j

\* the tokens between the first open and the first close after it
Between(text, open, close) ==
    LET a == FirstAt(text, open, 1)
        b == IF a = 0 THEN 0 ELSE FirstAt(text, close, a + 1)
    IN  IF a = 0 \/ b = 0 THEN <<"(no slot)">> ELSE SubSeq(text, a + 1, b - 1)

\* text.split(sep) with no parts for an empty text
RECURSIVE Split(_, _)
Split(text, sep) ==
    IF text = <<>> THEN <<>>
    ELSE LET i == FirstAt(text, sep, 1)
         IN  IF i = 0 THEN <<text>>
             ELSE IF i = Len(text) THEN <<SubSeq(text, 1, i - 1), <<>> >>
             ELSE <<SubSeq(text, 1, i - 1)>> \o Split(SubSeq(text, i + 1, Len(text)), sep)

Min(a, b) == IF a < b THEN a ELSE b
Max(a, b) == IF a > b THEN a ELSE b

Returned(c, op) == pc[c] = "done" /\ frame[c].op = op

---------------------------------------------------------------------------
(* The factory *)

MethodNames ==
    {"pretty_print_docs", "generate_search_queries_prompt", "generate_report_prompt",
     "generate_mcp_tool_selection_prompt"}

\* C1: for a name that is neither "Default" nor "FARPart10", get_prompt_family
\* returns (it does not fail) an instance of the base family carrying the config,
\* whose every operation is the one the base family resolves, and exactly one
\* warning was emitted during the call; for "Default" and "FARPart10" no warning
\* was emitted.
C1_UnknownNameFallsBackWithOneWarning ==
    \A c \in FactoryCallers :
        Returned(c, "get_prompt_family") =>
            IF frame[c].name \notin {"Default", "FARPart10"}
            THEN /\ ret[c] = Instance("PromptFamily",
                                      IF frame[c].config_arg = Omitted
                                      THEN None ELSE frame[c].config_arg)
                 /\ \A m \in MethodNames :
                        GetAttr(ret[c], m) = GetAttr(Instance("PromptFamily", None), m)
                 /\ Len(warned[c]) = 1
                 /\ warned[c][1] = <<"Unknown prompt family '", frame[c].name,
                                     "', using Default.">>
            ELSE /\ ret[c].kind = "instance"
                 /\ warned[c] = <<>>

C1_Witness ==
    \E c \in FactoryCallers :
        /\ Returned(c, "get_prompt_family")
        /\ frame[c].name = "NoSuchFamily"
        /\ frame[c].config_arg = ConfigValue
        /\ ret[c].kind = "instance"
        /\ Len(warned[c]) = 1

\* C7: for every report_type, in the table or not, and every family instance,
\* get_prompt_by_report_type does not fail and returns the operation named
\* generate_report_prompt as the instance's own class resolves it: the
\* specialized family's for a FARPart10 instance, the base family's for a base
\* instance.
C7_EveryReportTypeResolvesToReportPrompt ==
    \A c \in FactoryCallers :
        Returned(c, "get_prompt_by_report_type") =>
            /\ ret[c].kind = "function"
            /\ ret[c].name = "generate_report_prompt"
            /\ ret[c].owner = frame[c].prompt_family.cls

C7_Witness ==
    \E c \in FactoryCallers :
        /\ Returned(c, "get_prompt_by_report_type")
        /\ frame[c].report_type = "anything-else"
        /\ frame[c].prompt_family.cls = "FARPart10PromptFamily"
        /\ ret[c] = Function("FARPart10PromptFamily", "generate_report_prompt")

\* instance.generate_report_prompt(...) on the day d
CallReport(instance, q, cx, rs, rf, tw, tn, lg, d) ==
    IF GetAttr(instance, "generate_report_prompt").owner = "FARPart10PromptFamily"
    THEN FAR_generate_report_prompt(q, cx, rs, rf, tw, tn, lg, d)
    ELSE PF_generate_report_prompt(q, cx, rs, rf, tw, tn, lg)

\* C8: when one caller has obtained get_prompt_family("FARPart10") and another
\* get_prompt_family("Default"), then for all arguments the report operation of
\* the first returns a text with the five required-element lines, and that text
\* differs from what the report operation of the second returns for the same
\* arguments.
C8_FARPart10ReportDiffersFromDefault ==
    \A c1, c2 \in FactoryCallers :
        ( /\ Returned(c1, "get_prompt_family") /\ frame[c1].name = "FARPart10"
          /\ Returned(c2, "get_prompt_family") /\ frame[c2].name = "Default" ) =>
            \A q \in Questions, cx \in ReportContexts, rs \in ReportSources,
               rf \in ReportFormats, tw \in TotalWords, tn \in Tones, lg \in Languages :
                LET far == CallReport(ret[c1], q, cx, rs, rf, tw, tn, lg, today)
                    dft == CallReport(ret[c2], q, cx, rs, rf, tw, tn, lg, today)
                IN  /\ \A k \in 1..5 : Contains(far, RequiredElements[k])
                    /\ far # dft

C8_Witness ==
    \E c1, c2 \in FactoryCallers :
        /\ Returned(c1, "get_prompt_family") /\ frame[c1].name = "FARPart10"
        /\ Returned(c2, "get_prompt_family") /\ frame[c2].name = "Default"
        /\ ret[c1].cls = "FARPart10PromptFamily"
        /\ ret[c2].cls = "PromptFamily"

---------------------------------------------------------------------------
(* pretty_print_docs *)

\* the blocks of a returned text: the parts the "\n" of the join separates
Blocks(text) == Split(text, "\n")

TopNAbsent(top_n) == top_n.t \in {"omitted", "None"}

\* C2 as stated: the number of blocks is min(top_n or len(docs), len(docs)),
\* where "top_n or len(docs)" is len(docs) when top_n is absent or 0.
C2_Original_BlockCountIsMinTopNOrLen ==
    \A c \in Callers :
        Returned(c, "pretty_print_docs") =>
            LET docs == frame[c].docs
                top_n == frame[c].top_n
                top_n_or_len == IF TopNAbsent(top_n) \/ top_n.v = 0
                                THEN Len(docs) ELSE top_n.v
            IN  Len(Blocks(ret[c].text)) = Min(top_n_or_len, Len(docs))

\* C2 amended: the blocks are those of the leading k documents in input order,
\* where k is len(docs) when top_n is absent and min(max(top_n, 0), len(docs))
\* otherwise: a top_n of 0 or below gives no block at all.
C2_BlocksAreLeadingDocs ==
    \A c \in Callers :
        Returned(c, "pretty_print_docs") =>
            LET docs == frame[c].docs
                top_n == frame[c].top_n
                k == IF TopNAbsent(top_n) THEN Len(docs)
                     ELSE Min(Max(top_n.v, 0), Len(docs))
                blocks == Blocks(ret[c].text)
            IN  /\ Len(blocks) = k
                /\ \A i \in 1..k :
                    blocks[i] =
                        <<"Source: ">> \o Format(DictGet(docs[i].metadata, "source"))
                            \o <<"\nTitle: ">> \o Format(DictGet(docs[i].metadata, "title"))
                            \o <<"\nContent: ">> \o docs[i].page_content

C2_Witness ==
    \E c \in Callers :
        /\ Returned(c, "pretty_print_docs")
        /\ frame[c].top_n = IntV(0)
        /\ Len(frame[c].docs) = 2
        /\ ret[c].text = <<>>

---------------------------------------------------------------------------
(* generate_search_queries_prompt *)

ReturnedQueries(c, owner) ==
    Returned(c, "generate_search_queries_prompt") /\ frame[c].owner = owner

\* the max_iterations the call ran with
IterationsOf(c) ==
    IF frame[c].max_iterations.t = "omitted" THEN 3 ELSE frame[c].max_iterations.v

\* the task a returned prompt embeds
EmbeddedTask(c) ==
    IF frame[c].owner = "PromptFamily"
    THEN Between(ret[c].text, " web search queries to learn about: \"", "\".\n")
    ELSE Between(ret[c].text, "Task: \"", "\". Return ONLY a Python list, e.g. [")

\* the entries of the inline example list of a returned prompt
ExampleEntries(c) ==
    IF frame[c].owner = "PromptFamily"
    THEN Split(Between(ret[c].text, "Return a Python list -> [", "] only."), ", ")
    ELSE Split(Between(ret[c].text, "\". Return ONLY a Python list, e.g. [", "]."), ", ")

\* the part of the specialized prompt that names the primary systems
InstructionSources(c) ==
    Split(Between(ret[c].text,
                  " highly-targeted \"site:\" or keyword queries that will surface contractor information from these primary systems first: ",
                  ".  \n"), ", ")

FiveSources ==
    << <<"GSA eLibrary">>, <<"GSA Advantage">>, <<"USAspending.gov">>,
       <<"SBA Dynamic Small Business Search (DSBS)">>,
       <<"Federal Procurement Data System (FPDS)">> >>

\* C3 as stated: in the specialized family's prompt all five primary-source
\* names are in the instruction text and the example list has at most
\* min(max_iterations, 5) entries, for every max_iterations.
C3_Original_ExamplesAtMostMinIterations5 ==
    \A c \in Callers :
        ReturnedQueries(c, "FARPart10PromptFamily") =>
            /\ InstructionSources(c) = FiveSources
            /\ Len(ExampleEntries(c)) <= Min(IterationsOf(c), 5)

\* C3 amended: all five names are in the instruction text for every
\* max_iterations; the example list has min(max_iterations, 5) entries when
\* max_iterations >= 0 and max(5 + max_iterations, 0) entries when it is
\* negative, each entry naming the next primary source followed by the task.
C3_ExamplesFollowSlice ==
    \A c \in Callers :
        ReturnedQueries(c, "FARPart10PromptFamily") =>
            LET n == IterationsOf(c)
                k == IF n >= 0 THEN Min(n, 5) ELSE Max(5 + n, 0)
                entries == ExampleEntries(c)
            IN  /\ InstructionSources(c) = FiveSources
                /\ Len(entries) = k
                /\ \A i \in 1..k :
                    entries[i] = <<"\"">> \o FiveSources[i] \o <<" ">>
                                     \o EmbeddedTask(c) \o <<"\"">>

C3_Witness ==
    \E c \in Callers :
        /\ ReturnedQueries(c, "FARPart10PromptFamily")
        /\ frame[c].max_iterations = IntV(-1)
        /\ Len(ExampleEntries(c)) = 4

\* C4: in both families the prompt embeds exactly the question when
\* parent_query is None or empty, and exactly parent_query, " - ", question
\* when parent_query is non-empty, whatever report_type and context are.
C4_TaskIsQuestionOrParentDashQuestion ==
    \A c \in Callers :
        Returned(c, "generate_search_queries_prompt") =>
            LET pq == frame[c].parent_query
            IN  EmbeddedTask(c) =
                    IF pq.t = "str" /\ Len(pq.v) > 0
                    THEN pq.v \o <<" - ">> \o frame[c].question
                    ELSE frame[c].question

C4_Witness ==
    \E c \in Callers :
        /\ ReturnedQueries(c, "FARPart10PromptFamily")
        /\ frame[c].parent_query = StrV(<<>>)
        /\ frame[c].question = <<"X", " - ", "Y">>
        /\ EmbeddedTask(c) = <<"X", " - ", "Y">>

\* C10: the base family's prompt is returned for every max_iterations; its
\* example list is "query 1" .. "query max_iterations" in ascending order when
\* max_iterations >= 0 and empty when it is negative, and the text states
\* max_iterations as written.
C10_BaseExamplesCountMaxIterations ==
    \A c \in Callers :
        ReturnedQueries(c, "PromptFamily") =>
            LET n == IterationsOf(c)
                entries == ExampleEntries(c)
            IN  /\ ret[c].kind = "str"
                /\ Len(entries) = Max(n, 0)
                /\ \A i \in 1..Len(entries) :
                    entries[i] = <<"\"query ">> \o IntToStr(i) \o <<"\"">>
                /\ Between(ret[c].text, "Write ", " web search queries to learn about: \"")
                       = IntToStr(n)

C10_Witness ==
    \E c \in Callers :
        /\ ReturnedQueries(c, "PromptFamily")
        /\ frame[c].max_iterations = IntV(-2)
        /\ ExampleEntries(c) = <<>>
        /\ Between(ret[c].text, "Write ", " web search queries to learn about: \"")
               = <<"-", "2">>

---------------------------------------------------------------------------
(* generate_report_prompt *)

ReturnedReport(c, owner) ==
    Returned(c, "generate_report_prompt") /\ frame[c].owner = owner

ContractNumbersDirective ==
    "List contract numbers & links from each cited system at the end."

\* C5: the specialized family's report prompt holds the contract-numbers
\* directive exactly when report_source is "web", and the five required-element
\* lines in every case.
C5_DirectiveIffSourceIsWeb ==
    \A c \in Callers :
        ReturnedReport(c, "FARPart10PromptFamily") =>
            /\ Contains(ret[c].text, ContractNumbersDirective)
                   <=> frame[c].report_source = <<"web">>
            /\ \A k \in 1..5 : Contains(ret[c].text, RequiredElements[k])

C5_Witness ==
    \E c \in Callers :
        /\ ReturnedReport(c, "FARPart10PromptFamily")
        /\ frame[c].report_source = <<"Web">>
        /\ ~Contains(ret[c].text, ContractNumbersDirective)

\* the tone a call ran with: the argument, or the family's default when omitted
EffectiveTone(c) ==
    IF frame[c].tone.t # "omitted" THEN frame[c].tone
    ELSE IF frame[c].owner = "FARPart10PromptFamily" THEN StrV(<<"objective">>)
    ELSE None

\* C6: in both families the report prompt holds "Write in a <tone> tone."
\* exactly when the effective tone is a non-empty string: with tone omitted the
\* base family's prompt has none and the specialized family's has one, and a
\* tone of None or "" leaves it out in both.
C6_ToneDirectiveIffToneNonEmpty ==
    \A c \in Callers :
        Returned(c, "generate_report_prompt") =>
            LET tone == EffectiveTone(c)
                clause == IF frame[c].owner = "PromptFamily"
                          THEN Between(ret[c].text, " citations.\n", "* Language: ")
                          ELSE Between(ret[c].text, " citations.\n", "* Date: ")
            IN  IF tone.t = "str" /\ tone.v # <<>>
                THEN /\ SubSeq(clause, 1, Len(tone.v) + 3)
                            = <<"* ", "Write in a ">> \o tone.v \o <<" tone.">>
                     /\ Contains(ret[c].text, "Write in a ")
                ELSE /\ ~Contains(ret[c].text, "Write in a ")
                     /\ ~Contains(ret[c].text, " tone.")

C6_Witness ==
    \E c \in Callers :
        /\ ReturnedReport(c, "FARPart10PromptFamily")
        /\ frame[c].tone = Omitted
        /\ Contains(ret[c].text, "objective")
        /\ Contains(ret[c].text, "Write in a ")

---------------------------------------------------------------------------
(* Shared state under interleaving *)

\* what a call of Spec's callers returns when it runs alone from the initial
\* module state, written out for the arguments they pass (question "X",
\* parent_query "P", max_iterations 2, config omitted); only the factory, the
\* selector and the specialized search-query operation read module or class
\* state, the other operations return in one step
AloneResult(c) ==
    CASE frame[c].op = "get_prompt_family" ->
            Instance(IF frame[c].name = "FARPart10" THEN "FARPart10PromptFamily"
                     ELSE "PromptFamily", None)
      [] frame[c].op = "get_prompt_by_report_type" ->
            Function(frame[c].prompt_family.cls, "generate_report_prompt")
      [] frame[c].op = "generate_search_queries_prompt"
            /\ frame[c].owner = "FARPart10PromptFamily" ->
            TextValue(
                <<"You are performing FAR Part 10 market research.  Generate up to ",
                  "2",
                  " highly-targeted \"site:\" or keyword queries that will surface contractor information from these primary systems first: ",
                  "GSA eLibrary", ", ", "GSA Advantage", ", ", "USAspending.gov", ", ",
                  "SBA Dynamic Small Business Search (DSBS)", ", ",
                  "Federal Procurement Data System (FPDS)",
                  ".  \n", "Task: \"", "P", " - ", "X",
                  "\". Return ONLY a Python list, e.g. [",
                  "\"", "GSA eLibrary", " ", "P", " - ", "X", "\"", ", ",
                  "\"", "GSA Advantage", " ", "P", " - ", "X", "\"",
                  "].">>)
      [] OTHER -> ret[c]

AloneWarnings(c) ==
    IF frame[c].op = "get_prompt_family" /\ frame[c].name = "NoSuchFamily"
    THEN 1 ELSE 0

=============================================================================
